---- MODULE Spec2Model ----
(***************************************************************************)
(* A model of runna_cli.py: main() collects the arguments, builds the      *)
(* prompt, calls the model once, strips code fences from the reply, parses *)
(* it as JSON and prints the plan.                                         *)
(*                                                                         *)
(* Text is a sequence of tokens <<kind, text>>.  The fence characters and  *)
(* prose are single characters (kind "ch"), so startswith/endswith/slicing *)
(* act on them exactly as Python does; the JSON inside is lexed: "p" is a  *)
(* punctuation mark, "str" a whole string literal, "num" a number, "lit"   *)
(* the literal null, "ws" white space.                                     *)
(*                                                                         *)
(* A parsed JSON value is <<tag, payload>>: <<"str", s>>, <<"num", n>>,    *)
(* <<"null", "null">>, <<"list", items>>, and <<"dict", pairs>> with pairs *)
(* a sequence of <<key, value>> in insertion order (a Python dict).        *)
(***************************************************************************)
EXTENDS Integers, Sequences, FiniteSets, TLC

\* ------------------------------------------------------------ JSON values

JStr(s) == <<"str", s>>
JNum(n) == <<"num", n>>
JNull == <<"null", "null">>
JList(items) == <<"list", items>>
JDict(pairs) == <<"dict", pairs>>

\* isinstance(v, dict)
IsDict(v) == v[1] = "dict"

\* key in d, for a dict d
HasKey(d, k) == \E i \in 1..Len(d[2]) : d[2][i][1] = k

\* d.get(k, default), for a dict d
Get(d, k, default) ==
    IF HasKey(d, k)
    THEN d[2][CHOOSE i \in 1..Len(d[2]) : d[2][i][1] = k][2]
    ELSE default

\* d[k] = v as json.loads does it for each pair in turn: a repeated key keeps
\* its first position and takes the last value.
Put(pairs, k, v) ==
    IF \E i \in 1..Len(pairs) : pairs[i][1] = k
    THEN [i \in 1..Len(pairs) |-> IF pairs[i][1] = k THEN <<k, v>> ELSE pairs[i]]
    ELSE Append(pairs, <<k, v>>)

\* ------------------------------------------------------------------ text

Ch(c) == <<"ch", c>>
P(c) == <<"p", c>>
Ws == <<"ws", " ">>

\* The backquote character (the lexer of TLA+ takes no backquote in a string).
Bt == <<"ch", "backquote">>

\* The two literals main() tests for.
OpenFence == <<Bt, Bt, Bt, Ch("j"), Ch("s"), Ch("o"), Ch("n")>>
CloseFence == <<Bt, Bt, Bt>>

\* str.startswith and str.endswith
StartsWith(s, prefix) ==
    /\ Len(s) >= Len(prefix)
    /\ SubSeq(s, 1, Len(prefix)) = prefix
EndsWith(s, suffix) ==
    /\ Len(s) >= Len(suffix)
    /\ SubSeq(s, Len(s) - Len(suffix) + 1, Len(s)) = suffix

\* What a model that follows the prompt writes for a value (json.dumps).
RECURSIVE Serialize(_)
RECURSIVE SerializeItems(_)
RECURSIVE SerializePairs(_)
Serialize(v) ==
    CASE v[1] = "str" -> <<v>>
      [] v[1] = "num" -> <<v>>
      [] v[1] = "null" -> << <<"lit", "null">> >>
      [] v[1] = "list" -> <<P("[")>> \o SerializeItems(v[2]) \o <<P("]")>>
      [] v[1] = "dict" -> <<P("{")>> \o SerializePairs(v[2]) \o <<P("}")>>
SerializeItems(items) ==
    IF items = <<>> THEN <<>>
    ELSE Serialize(Head(items))
         \o (IF Len(items) > 1 THEN <<P(","), Ws>> ELSE <<>>)
         \o SerializeItems(Tail(items))
SerializePairs(pairs) ==
    IF pairs = <<>> THEN <<>>
    ELSE <<JStr(Head(pairs)[1]), P(":"), Ws>> \o Serialize(Head(pairs)[2])
         \o (IF Len(pairs) > 1 THEN <<P(","), Ws>> ELSE <<>>)
         \o SerializePairs(Tail(pairs))

\* json.loads: white space between tokens is skipped, one value must span the
\* whole text.  A parse result is [ok, val, rest]; ok = FALSE is
\* json.JSONDecodeError.
Fail == [ok |-> FALSE, val |-> JNull, rest |-> <<>>]
IsTok(toks, t) == toks # <<>> /\ Head(toks) = t

RECURSIVE ParseValue(_)
RECURSIVE ParseItems(_, _)
RECURSIVE ParsePairs(_, _)
ParseValue(toks) ==
    IF toks = <<>> THEN Fail
    ELSE LET t == Head(toks) IN
         CASE t[1] = "str" -> [ok |-> TRUE, val |-> t, rest |-> Tail(toks)]
           [] t[1] = "num" -> [ok |-> TRUE, val |-> t, rest |-> Tail(toks)]
           [] t[1] = "lit" -> [ok |-> TRUE, val |-> JNull, rest |-> Tail(toks)]
           [] t = P("[") ->
                IF IsTok(Tail(toks), P("]"))
                THEN [ok |-> TRUE, val |-> JList(<<>>), rest |-> Tail(Tail(toks))]
                ELSE ParseItems(Tail(toks), <<>>)
           [] t = P("{") ->
                IF IsTok(Tail(toks), P("}"))
                THEN [ok |-> TRUE, val |-> JDict(<<>>), rest |-> Tail(Tail(toks))]
                ELSE ParsePairs(Tail(toks), <<>>)
           [] OTHER -> Fail
\* toks stands after "[" or after a ","; acc holds the items read so far.
ParseItems(toks, acc) ==
    LET r == ParseValue(toks) IN
    IF ~r.ok THEN Fail
    ELSE IF IsTok(r.rest, P(",")) THEN ParseItems(Tail(r.rest), Append(acc, r.val))
    ELSE IF IsTok(r.rest, P("]"))
         THEN [ok |-> TRUE, val |-> JList(Append(acc, r.val)), rest |-> Tail(r.rest)]
    ELSE Fail
\* toks stands after "{" or after a ","; acc holds the pairs read so far.
ParsePairs(toks, acc) ==
    IF ~(toks # <<>> /\ Head(toks)[1] = "str" /\ IsTok(Tail(toks), P(":"))) THEN Fail
    ELSE LET k == Head(toks)[2]
             r == ParseValue(Tail(Tail(toks)))
         IN IF ~r.ok THEN Fail
            ELSE IF IsTok(r.rest, P(","))
                 THEN ParsePairs(Tail(r.rest), Put(acc, k, r.val))
            ELSE IF IsTok(r.rest, P("}"))
                 THEN [ok |-> TRUE, val |-> JDict(Put(acc, k, r.val)), rest |-> Tail(r.rest)]
            ELSE Fail

NotWs(t) == t[1] # "ws"
JsonLoads(text) ==
    LET r == ParseValue(SelectSeq(text, NotWs)) IN
    IF r.ok /\ r.rest = <<>> THEN r ELSE Fail

\* ------------------------------------------------------- Python built-ins

\* The characters of the strings that main() tests with startswith("week") or
\* that a for statement may iterate over.
Spelling ==
    "week_1" :> <<"w", "e", "e", "k", "_", "1">>
    @@ "week_2" :> <<"w", "e", "e", "k", "_", "2">>
    @@ "weekly_gear_tip" :> <<"w", "e", "e", "k", "l", "y", "_", "g", "e", "a", "r", "_", "t", "i", "p">>
    @@ "week" :> <<"w", "e", "e", "k">>
    @@ "Week_3" :> <<"W", "e", "e", "k", "_", "3">>
    @@ "wee" :> <<"w", "e", "e">>
    @@ "notes" :> <<"n", "o", "t", "e", "s">>
    @@ "ab" :> <<"a", "b">>
    @@ "" :> <<>>

\* The placeholder of every get(..., 'N/A'), and None (get's default default,
\* and what json.loads makes of null).
NA == JStr("N/A")
None == JNull

\* iter(v) succeeds on a list, a str and a dict, and is a TypeError on a
\* number and on None.
Iterable(v) == v[1] \in {"list", "str", "dict"}
\* What a for statement over v yields: the items of a list, the characters of
\* a str, the keys of a dict.
Items(v) ==
    CASE v[1] = "list" -> v[2]
      [] v[1] = "str" -> [i \in 1..Len(Spelling[v[2]]) |-> JStr(Spelling[v[2]][i])]
      [] v[1] = "dict" -> [i \in 1..Len(v[2]) |-> JStr(v[2][i][1])]

\* One printed line: what it is (its label) and the values formatted into it.
Line(label, values) == <<label, values>>

\* The result of a formatter: the lines it printed, and the exception that
\* ended it ("none" when it returned).
Printed(lines, exc) == [lines |-> lines, exc |-> exc]

Min(S) == CHOOSE x \in S : \A y \in S : x <= y

\* for exercise in exercises: print(... exercise.get(f, 'N/A') ...), fields
\* the names f.  exercises is what get('exercises', []) returned.
ExerciseLoop(exercises, fields) ==
    IF ~Iterable(exercises) THEN Printed(<<>>, "TypeError")
    ELSE LET items == Items(exercises)
             bad == {i \in 1..Len(items) : ~IsDict(items[i])}
             n == IF bad = {} THEN Len(items) ELSE Min(bad) - 1
         IN Printed([i \in 1..n |->
                        Line("-", [f \in 1..Len(fields) |-> Get(items[i], fields[f], NA)])],
                    IF bad = {} THEN "none" ELSE "AttributeError")

\* 'k' in day_data and isinstance(day_data['k'], dict)
HasDict(day_data, k) == HasKey(day_data, k) /\ IsDict(Get(day_data, k, None))

\* format_running_workout
format_running_workout(day_data) ==
    LET head == << Line("Intensity", <<Get(day_data, "intensity", NA)>>),
                   Line("RPE Target", <<Get(day_data, "rpe_target", NA)>>),
                   Line("Pace Guidance", <<Get(day_data, "pace_guidance", NA)>>) >>
        warm_up == Get(day_data, "warm_up", None)
        warm == IF HasDict(day_data, "warm_up")
                THEN << Line("Warm-up", <<Get(warm_up, "duration_mins", NA),
                                          Get(warm_up, "description", NA)>>) >>
                ELSE <<>>
        main_workout == Get(day_data, "main_workout", None)
        key_points == Get(main_workout, "key_points", None)
        main == IF ~HasDict(day_data, "main_workout") THEN Printed(<<>>, "none")
                ELSE LET first == << Line("Main Workout",
                                          <<Get(main_workout, "structure", NA)>>) >>
                     IN IF ~HasKey(main_workout, "key_points") THEN Printed(first, "none")
                        ELSE IF ~Iterable(key_points) THEN Printed(first, "TypeError")
                        ELSE Printed(first \o [i \in 1..Len(Items(key_points)) |->
                                                  Line("-", <<Items(key_points)[i]>>)],
                                     "none")
        cool_down == Get(day_data, "cool_down", None)
        cool == IF HasDict(day_data, "cool_down")
                THEN << Line("Cool-down", <<Get(cool_down, "duration_mins", NA),
                                            Get(cool_down, "description", NA)>>) >>
                ELSE <<>>
    IN IF main.exc # "none" THEN Printed(head \o warm \o main.lines, main.exc)
       ELSE Printed(head \o warm \o main.lines \o cool, "none")

\* Lines 48-50: the warm-up lines of a strength day whose warm_up is a dict.
StrengthWarmUpLines(warm_up) ==
    LET loop == ExerciseLoop(Get(warm_up, "exercises", JList(<<>>)), <<"name", "duration">>)
    IN Printed(<< Line("Warm-up", <<Get(warm_up, "duration", NA)>>) >> \o loop.lines,
               loop.exc)

\* A warm-up step that prints the placeholder when warm_up is missing.
StrengthWarmUp_Placeholder(day_data) ==
    IF ~HasDict(day_data, "warm_up")
    THEN Printed(<< Line("Warm-up", <<NA>>) >>, "none")
    ELSE StrengthWarmUpLines(Get(day_data, "warm_up", None))

\* Lines 47-50 of format_strength_workout.
StrengthWarmUp(day_data) ==
    IF ~HasDict(day_data, "warm_up") THEN Printed(<<>>, "none")
    ELSE StrengthWarmUpLines(Get(day_data, "warm_up", None))

\* format_strength_workout
format_strength_workout(day_data) ==
    LET head == << Line("Total Duration", <<Get(day_data, "total_duration", NA)>>) >>
        warm == StrengthWarmUp(day_data)
        main_circuit == Get(day_data, "main_circuit", None)
        main == IF ~HasDict(day_data, "main_circuit") THEN Printed(<<>>, "none")
                ELSE LET loop == ExerciseLoop(Get(main_circuit, "exercises", JList(<<>>)),
                                              <<"name", "sets", "reps">>)
                     IN Printed(<< Line("Main Circuit", <<Get(main_circuit, "rounds", NA)>>) >>
                                \o loop.lines, loop.exc)
    IN IF warm.exc # "none" THEN Printed(head \o warm.lines, warm.exc)
       ELSE Printed(head \o warm.lines \o main.lines, main.exc)

\* Lines 204-209 of main: which of the three branches a day object takes.
Branch(day_data) ==
    IF Get(day_data, "workout_type", None) = JStr("Strength") THEN "strength"
    ELSE IF Get(day_data, "workout_type", None) # JStr("Rest") THEN "running"
    ELSE "rest"

\* Lines 200-209 of main: the body of the loop over a week's items, for the
\* item day: day_data.
RenderDay(day, day_data) ==
    IF day = "weekly_gear_tip"
    THEN Printed(<< Line("Weekly Gear Tip", <<day_data>>) >>, "none")
    ELSE IF ~IsDict(day_data) THEN Printed(<<>>, "AttributeError")
    ELSE LET header == << Line("DAY", <<JStr(day), Get(day_data, "workout_type", NA),
                                        Get(day_data, "purpose", NA)>>) >>
             body == CASE Branch(day_data) = "strength" -> format_strength_workout(day_data)
                       [] Branch(day_data) = "running" -> format_running_workout(day_data)
                       [] OTHER -> Printed(<< Line("Optional Activity",
                                       <<Get(day_data, "optional_activity", NA)>>) >>, "none")
         IN Printed(header \o body.lines, body.exc)


\* ------------------------------------------------------------ the inputs

\* The most day entries a generated week holds.
MaxDays == 2

Obj(pairs) == JDict(pairs)
WorkoutType(t) == <<"workout_type", JStr(t)>>

RestDay == Obj(<< WorkoutType("Rest"), <<"purpose", JStr("Recover")>> >>)
RestYoga == Obj(<< WorkoutType("Rest"), <<"optional_activity", JStr("Yoga")>> >>)
StrengthNoWarmUp ==
    Obj(<< WorkoutType("Strength"), <<"total_duration", JStr("30 min")>>,
           <<"main_circuit", Obj(<< <<"rounds", JNum("3")>>,
               <<"exercises", JList(<< Obj(<< <<"name", JStr("Squat")>>,
                                              <<"sets", JStr("3")>>,
                                              <<"reps", JStr("10")>> >>) >>)>> >>)>> >>)
StrengthFull ==
    Obj(<< WorkoutType("Strength"),
           <<"warm_up", Obj(<< <<"duration", JStr("5 min")>>,
               <<"exercises", JList(<< Obj(<< <<"name", JStr("Jog")>>,
                                              <<"duration", JStr("2 min")>> >>) >>)>> >>)>>,
           <<"main_circuit", Obj(<< <<"exercises", JList(<< Obj(<< <<"name", JStr("Lunge")>> >>) >>)>> >>)>> >>)
\* a strength day with nothing but its type
StrengthBare == Obj(<< WorkoutType("Strength") >>)
\* warm_up.exercises is a number
StrengthBadExercises ==
    Obj(<< WorkoutType("Strength"),
           <<"warm_up", Obj(<< <<"exercises", JNum("5")>> >>)>> >>)
\* no warm_up, and an exercise of main_circuit is a string
StrengthBadEntry ==
    Obj(<< WorkoutType("Strength"),
           <<"main_circuit", Obj(<< <<"exercises", JList(<< JStr("Squat") >>)>> >>)>> >>)
EasyRunLow == Obj(<< WorkoutType("Easy Run"), <<"intensity", JStr("Low")>> >>)
RunFull ==
    Obj(<< WorkoutType("Tempo Run"), <<"purpose", JStr("Speed")>>,
           <<"intensity", JStr("High")>>, <<"rpe_target", JStr("7/10")>>,
           <<"pace_guidance", JStr("5K pace + 20 s")>>,
           <<"warm_up", Obj(<< <<"duration_mins", JNum("10")>>,
                               <<"description", JStr("Easy jog")>> >>)>>,
           <<"main_workout", Obj(<< <<"structure", JStr("3 x 8 min")>>,
                                    <<"key_points", JList(<< JStr("Relax"), JStr("Breathe") >>)>> >>)>>,
           <<"cool_down", Obj(<< <<"duration_mins", JNum("5")>> >>)>> >>)
\* no workout_type, and a warm_up that is not an object
NoType == Obj(<< <<"intensity", JStr("Low")>>, <<"warm_up", JStr("jog")>> >>)
NullType == Obj(<< <<"workout_type", JNull>> >>)
LowerRest == Obj(<< WorkoutType("rest"), <<"optional_activity", JStr("Yoga")>> >>)
\* main_workout.key_points is a number, and is a string
KeyPointsNum ==
    Obj(<< WorkoutType("Easy Run"),
           <<"main_workout", Obj(<< <<"key_points", JNum("5")>> >>)>>,
           <<"cool_down", Obj(<<>>)>> >>)
KeyPointsStr ==
    Obj(<< WorkoutType("Easy Run"),
           <<"main_workout", Obj(<< <<"key_points", JStr("ab")>> >>)>> >>)
\* a day value that is not an object
DayIsString == JStr("Rest")

\* The day values the generated weeks are built from.
DayValues ==
    { RestDay, RestYoga, StrengthNoWarmUp, StrengthBadExercises, EasyRunLow,
      NoType, KeyPointsNum, DayIsString }
\* Day values that appear in a week of their own only.
MoreDayValues ==
    { StrengthBare, StrengthFull, StrengthBadEntry, RunFull, NullType, LowerRest, KeyPointsStr,
      JNull, JList(<<>>) }

DayNames == <<"monday", "tuesday", "wednesday", "thursday", "friday", "saturday", "sunday">>
GearTip == <<"weekly_gear_tip", JStr("Rotate your shoes")>>

\* The week object whose days, in order, are the values ds.
WeekOf(ds) == Obj([i \in 1..Len(ds) |-> <<DayNames[i], ds[i]>>])
\* The same week with the gear tip after its first entry (first, if empty).
WeekWithTip(ds) ==
    Obj(IF ds = <<>> THEN <<GearTip>>
        ELSE << <<DayNames[1], ds[1]>>, GearTip >>
             \o [i \in 1..(Len(ds) - 1) |-> <<DayNames[i + 1], ds[i + 1]>>])

DayLists == UNION { [1..n -> DayValues] : n \in 0..MaxDays }
GeneratedWeeks ==
    { WeekOf(ds) : ds \in DayLists } \cup { WeekWithTip(ds) : ds \in DayLists }
    \cup { WeekOf(<<d>>) : d \in MoreDayValues }

\* The end-to-end scenario: week_1 and week_2, each with seven well-formed
\* days and a gear tip.
ScenarioDays == <<EasyRunLow, StrengthFull, RestDay, RunFull, RestYoga, StrengthNoWarmUp, NoType>>
ScenarioWeek ==
    Obj([i \in 1..Len(DayNames) |-> <<DayNames[i], ScenarioDays[i]>>] \o <<GearTip>>)
ScenarioPlan == Obj(<< <<"week_1", ScenarioWeek>>, <<"week_2", ScenarioWeek>> >>)

\* The JSON documents a reply may hold.
Documents ==
    { Obj(<< <<"week_1", w>> >>) : w \in GeneratedWeeks }
    \cup { Obj(<< <<"notes", JStr("Enjoy")>>, <<"week_1", w>>,
                  <<"week_2", WeekWithTip(<<RestYoga>>)>> >>) : w \in GeneratedWeeks }
    \cup { ScenarioPlan,
           Obj(<<>>),
           Obj(<< <<"weekly_gear_tip", JStr("Hydrate")>>, <<"week_1", WeekOf(<<RestDay>>)>> >>),
           Obj(<< <<"Week_3", WeekOf(<<RestDay>>)>>, <<"wee", WeekOf(<<RestDay>>)>> >>),
           Obj(<< <<"week", JStr("soon")>>, <<"week_2", WeekOf(<<EasyRunLow>>)>> >>),
           JList(<< WeekOf(<<RestDay>>) >>),
           JStr("week_1"),
           JNum("5"),
           JNull }

Prose == <<Ch("S"), Ch("o"), Ch("r"), Ch("r"), Ch("y")>>
\* What text is wrapped in: nothing, both fences, the opening fence only, the
\* closing fence only, both fences with the usual line breaks, and the same
\* with a line break after the closing fence.
Wrappings(text) ==
    { text,
      OpenFence \o text \o CloseFence,
      OpenFence \o text,
      text \o CloseFence,
      OpenFence \o <<Ws>> \o text \o <<Ws>> \o CloseFence,
      OpenFence \o <<Ws>> \o text \o <<Ws>> \o CloseFence \o <<Ws>> }
\* Replies that hold no JSON document: prose, nothing, a document cut short,
\* a document followed by prose.
Malformed ==
    { Prose, <<>>, <<P("{")>>,
      SubSeq(Serialize(ScenarioPlan), 1, Len(Serialize(ScenarioPlan)) - 1),
      Serialize(Obj(<< <<"week_1", WeekOf(<<RestDay>>)>> >>)) \o Prose }
\* The texts the model may reply with.
Replies ==
    UNION { Wrappings(Serialize(d)) : d \in Documents }
    \cup UNION { Wrappings(t) : t \in Malformed }


\* ------------------------------------------------------------ the program

RUNNING_PHILOSOPHIES ==
    "The Gentle Start" :> "This philosophy is for those new to running. It focuses on building a consistent habit and enjoying the process. The plan will gradually increase in duration and intensity, with a mix of running and walking to ease you into it. The key is to listen to your body and not push too hard too soon."
    @@ "The Balanced & Motivational" :> "This philosophy is for runners who want to improve but also maintain a healthy balance with other aspects of life. The plan will include a variety of runs to keep things interesting, with a focus on positive reinforcement and celebrating small wins. It's about making running a sustainable and enjoyable part of your lifestyle."
    @@ "Train Smarter Not Harder" :> "This philosophy is for the data-driven runner who wants to maximize their performance efficiently. The plan will focus on quality over quantity, with specific workouts designed to improve your pace and endurance. It will incorporate principles of polarized training, with a mix of high-intensity and low-intensity sessions."
    @@ "The Performance Push" :> "This philosophy is for the experienced runner who is ready to push their limits and achieve a new personal best. The plan will be challenging and demanding, with a high volume of running and intense workouts. It's designed to get you to the starting line feeling strong, confident, and ready to race."

\* What the command line may give for --philosophy; the other flags are held
\* at one valid value each, --commitment at its default.
PhilosophyInputs == DOMAIN RUNNING_PHILOSOPHIES \cup {"Couch to 5K"}
CommitmentDefault == 4
Namespace(philosophy, commitment) ==
    [ sex |-> "Female", age |-> "25-34", fitness |-> "Beginner Runner",
      goal |-> "Run Longer", motivation |-> "None", target_outcome |-> "None",
      philosophy |-> philosophy, commitment |-> commitment ]
NoArgs == Namespace("", 0)

\* The values GEMINI_API_KEY may have: <<>> is unset (getenv returns None),
\* <<k>> is set to k.
ApiKeys == { <<>>, <<"">>, <<"secret">> }
\* A check of the key that takes only an unset variable for missing.
Falsy_UnsetOnly(api_key) == api_key = <<>>

\* not api_key
Falsy(api_key) == api_key = <<>> \/ api_key[1] = ""

\* The slice bounds of api_response[7:] and api_response[:-3].
OpenFenceLen == 7
CloseFenceLen == 3

\* A clean-up that forgets the closing fence.
StripFences_OpenOnly(text) ==
    IF StartsWith(text, OpenFence)
    THEN SubSeq(text, OpenFenceLen + 1, Len(text))
    ELSE text

\* A clean-up that cuts the last characters without testing for the fence.
StripFences_AlwaysCut(text) ==
    LET opened == IF StartsWith(text, OpenFence)
                  THEN SubSeq(text, OpenFenceLen + 1, Len(text))
                  ELSE text
    IN IF Len(opened) >= CloseFenceLen
       THEN SubSeq(opened, 1, Len(opened) - CloseFenceLen)
       ELSE <<>>

\* Lines 181-184 of main: the clean-up of the reply.
StripFences(text) ==
    LET opened == IF StartsWith(text, OpenFence)
                  THEN SubSeq(text, OpenFenceLen + 1, Len(text))
                  ELSE text
    IN IF EndsWith(opened, CloseFence)
       THEN SubSeq(opened, 1, Len(opened) - CloseFenceLen)
       ELSE opened

\* The prompt as lines 76-85 of main build it: the f-string ends at the
\* closing quotes of line 85; the text of lines 87-174, philosophy_text
\* among it, is outside the literal.
BuildPrompt(a, philosophy_text) ==
    << "You are an expert running coach generating a personalized, day-by-day training plan for an Indian runner for 2 weeks. Adhere strictly to all principles and rules provided. Use the detailed JSON structures provided.",
       "**1. User Data:**",
       "- Age: ", a.age, ", Sex: ", a.sex,
       "- Level: ", a.fitness,
       "- Goal: ", a.goal,
       "- Motivation: ", a.motivation,
       "- Target: ", a.target_outcome, " (if applicable)",
       "- Commitment: ", ToString(a.commitment), " days/week for 2 weeks." >>

CallBanner == Line("--- CALLING GEMINI API ---", <<>>)
PlanBanner == Line("--- YOUR PERSONALIZED TRAINING PLAN ---", <<>>)
WeekHeader(week) == Line("WEEK", <<JStr(week)>>)
\* An except clause that prints the error alone.
DecodeDiagnostic_ErrorOnly(text) ==
    << Line("Error decoding JSON from API response:", <<JStr("JSONDecodeError")>>) >>

\* Lines 189-190 of main: what the except clause prints.
DecodeDiagnostic(text) ==
    << Line("Error decoding JSON from API response:", <<JStr("JSONDecodeError")>>),
       Line("Raw response:", text) >>

VARIABLES
    pc,             \* where main() stands
    api_key,        \* the environment's GEMINI_API_KEY
    args,           \* the parsed command line
    prompt,         \* the prompt, a sequence of text segments
    requests,       \* the prompts sent to the model endpoint, in order
    response_text,  \* response.text as call_gemini_api returned it
    api_response,   \* main's variable api_response
    training_plan,  \* main's variable training_plan
    week_i,         \* the position of the outer loop in training_plan.items()
    day_i,          \* the position of the inner loop in week_data.items()
    out,            \* the lines printed so far
    exc             \* the exception that ended the run, "none" if none
vars == <<pc, api_key, args, prompt, requests, response_text, api_response,
          training_plan, week_i, day_i, out, exc>>

Init ==
    /\ pc = "args"
    /\ api_key \in ApiKeys
    /\ args = NoArgs
    /\ prompt = <<>>
    /\ requests = <<>>
    /\ response_text = <<>>
    /\ api_response = <<>>
    /\ training_plan = None
    /\ week_i = 0
    /\ day_i = 0
    /\ out = <<>>
    /\ exc = "none"

Raise(e) == pc' = "raised" /\ exc' = e

\* Lines 57-70: argparse takes a philosophy of the catalog, and leaves with a
\* usage message on any other.
ParseArgs ==
    /\ pc = "args"
    /\ \E philosophy \in PhilosophyInputs :
          IF philosophy \in DOMAIN RUNNING_PHILOSOPHIES
          THEN /\ args' = Namespace(philosophy, CommitmentDefault)
               /\ pc' = "prompt"
               /\ UNCHANGED <<out, exc>>
          ELSE /\ out' = Append(out, Line("usage:", <<>>))
               /\ Raise("SystemExit")
               /\ UNCHANGED args
    /\ UNCHANGED <<api_key, prompt, requests, response_text, api_response,
                   training_plan, week_i, day_i>>

\* Lines 72-85.
MakePrompt ==
    /\ pc = "prompt"
    /\ prompt' = BuildPrompt(args, RUNNING_PHILOSOPHIES[args.philosophy])
    /\ pc' = "call"
    /\ UNCHANGED <<api_key, args, requests, response_text, api_response,
                   training_plan, week_i, day_i, out, exc>>

\* Line 178 and call_gemini_api: the banner, the check of the key, one
\* generate_content, which returns a text or raises.
call_gemini_api ==
    /\ pc = "call"
    /\ out' = Append(out, CallBanner)
    /\ IF Falsy(api_key)
       THEN /\ Raise("ValueError")
            /\ UNCHANGED <<requests, response_text, api_response>>
       ELSE /\ requests' = Append(requests, prompt)
            /\ \/ /\ Raise("TransportError")
                  /\ UNCHANGED <<response_text, api_response>>
               \/ \E text \in Replies :
                     /\ response_text' = text
                     /\ api_response' = text
                     /\ pc' = "clean"
                     /\ UNCHANGED exc
    /\ UNCHANGED <<api_key, args, prompt, training_plan, week_i, day_i>>

\* Lines 181-184.
CleanUp ==
    /\ pc = "clean"
    /\ api_response' = StripFences(api_response)
    /\ pc' = "parse"
    /\ UNCHANGED <<api_key, args, prompt, requests, response_text,
                   training_plan, week_i, day_i, out, exc>>

\* Lines 186-191: json.loads, and on JSONDecodeError the two prints and the
\* return.
LoadJson ==
    /\ pc = "parse"
    /\ LET r == JsonLoads(api_response) IN
       IF r.ok
       THEN /\ training_plan' = r.val
            /\ pc' = "render"
            /\ UNCHANGED out
       ELSE /\ out' = out \o DecodeDiagnostic(api_response)
            /\ pc' = "returned"
            /\ UNCHANGED training_plan
    /\ UNCHANGED <<api_key, args, prompt, requests, response_text, api_response,
                   week_i, day_i, exc>>

\* Lines 194-195: the banner, then training_plan.items().
StartRender ==
    /\ pc = "render"
    /\ out' = Append(out, PlanBanner)
    /\ IF IsDict(training_plan)
       THEN pc' = "week" /\ week_i' = 1 /\ UNCHANGED exc
       ELSE Raise("AttributeError") /\ UNCHANGED week_i
    /\ UNCHANGED <<api_key, args, prompt, requests, response_text, api_response,
                   training_plan, day_i>>

\* Lines 195-199: one turn of the loop over the top-level items, up to the
\* start of the loop over the week's items.
WeekStep ==
    /\ pc = "week"
    /\ LET items == training_plan[2] IN
       IF week_i > Len(items)
       THEN pc' = "done" /\ UNCHANGED <<week_i, day_i, out>>
       ELSE LET week == items[week_i][1]
                week_data == items[week_i][2]
            IN IF ~StartsWith(Spelling[week], Spelling["week"])
               THEN week_i' = week_i + 1 /\ UNCHANGED <<pc, day_i, out>>
               ELSE /\ out' = Append(out, WeekHeader(week))
                    /\ IF IsDict(week_data)
                       THEN pc' = "day" /\ day_i' = 1 /\ UNCHANGED week_i
                       ELSE week_i' = week_i + 1 /\ UNCHANGED <<pc, day_i>>
    /\ UNCHANGED <<api_key, args, prompt, requests, response_text, api_response,
                   training_plan, exc>>

\* Lines 199-209: one turn of the loop over the week's items.
DayStep ==
    /\ pc = "day"
    /\ LET items == training_plan[2][week_i][2][2] IN
       IF day_i > Len(items)
       THEN pc' = "week" /\ week_i' = week_i + 1 /\ UNCHANGED <<day_i, out, exc>>
       ELSE LET r == RenderDay(items[day_i][1], items[day_i][2]) IN
            /\ out' = out \o r.lines
            /\ IF r.exc = "none"
               THEN day_i' = day_i + 1 /\ UNCHANGED <<pc, exc>>
               ELSE Raise(r.exc) /\ UNCHANGED day_i
            /\ UNCHANGED week_i
    /\ UNCHANGED <<api_key, args, prompt, requests, response_text, api_response,
                   training_plan>>

Next ==
    \/ ParseArgs
    \/ MakePrompt
    \/ call_gemini_api
    \/ CleanUp
    \/ LoadJson
    \/ StartRender
    \/ WeekStep
    \/ DayStep

Spec == Init /\ [][Next]_vars
\* ------------------------------------------------------------ the claims

RenderErrors == {"AttributeError", "TypeError"}
Terminated == pc \in {"done", "returned", "raised"}
\* The reply has been cleaned up: api_response holds the stripped text.
Cleaned ==
    \/ pc \in {"parse", "render", "week", "day", "done", "returned"}
    \/ pc = "raised" /\ exc \in RenderErrors
Has(lines, line) == \E i \in 1..Len(lines) : lines[i] = line
HasLabel(lines, label) == \E i \in 1..Len(lines) : lines[i][1] = label
\* The lines that are not plan output: the usage message, the banner of the
\* call and the two lines of the decode diagnostic.
NotPlanLabels ==
    {"usage:", CallBanner[1], "Error decoding JSON from API response:", "Raw response:"}
NoPlanOutput == \A i \in 1..Len(out) : out[i][1] \in NotPlanLabels

\* The week headers, tip lines and day headers among lines, in order.
IsHeadline(line) == line[1] \in {"WEEK", "Weekly Gear Tip", "DAY"}
Outline(lines) ==
    LET h == SelectSeq(lines, IsHeadline) IN
    [i \in 1..Len(h) |->
        CASE h[i][1] = "WEEK" -> <<"WEEK", h[i][2][1][2]>>
          [] h[i][1] = "DAY" -> <<"DAY", h[i][2][1][2]>>
          [] OTHER -> <<"TIP", "weekly_gear_tip">>]
\* What the plan calls for: a header for each top-level key that begins with
\* "week", and in each such week that is a mapping a tip line for the key
\* weekly_gear_tip and a day section for every other key.
WeekOutline(week, week_data) ==
    IF ~StartsWith(Spelling[week], Spelling["week"]) THEN <<>>
    ELSE << <<"WEEK", week>> >>
         \o (IF ~IsDict(week_data) THEN <<>>
             ELSE [i \in 1..Len(week_data[2]) |->
                     IF week_data[2][i][1] = "weekly_gear_tip"
                     THEN <<"TIP", "weekly_gear_tip">>
                     ELSE <<"DAY", week_data[2][i][1]>>])
RECURSIVE PlanOutline(_)
PlanOutline(items) ==
    IF items = <<>> THEN <<>>
    ELSE WeekOutline(Head(items)[1], Head(items)[2]) \o PlanOutline(Tail(items))
Count(seq, x) == Cardinality({i \in 1..Len(seq) : seq[i] = x})

\* The day entry the inner loop stands before, if any.
AtDayEntry == pc = "day" /\ day_i <= Len(training_plan[2][week_i][2][2])
DayKey == training_plan[2][week_i][2][2][day_i][1]
DayData == training_plan[2][week_i][2][2][day_i][2]
\* The lines the step printed.
NewLines == SubSeq(out', Len(out) + 1, Len(out'))
Labels(lines) == {lines[i][1] : i \in 1..Len(lines)}
\* A field of a day entry or the placeholder; an entry that is no mapping has
\* no fields.
Field(d, k) == IF IsDict(d) /\ HasKey(d, k) THEN Get(d, k, NA) ELSE NA

\* C1 as stated: when the cleaned reply is not valid JSON the renderer is
\* never invoked, main returns normally, and the only output is the decode
\* diagnostic and the raw reply text.
C1_OnlyDiagnosticAndRawReply ==
    (Cleaned /\ ~JsonLoads(api_response).ok) =>
        /\ pc \in {"parse", "returned"}
        /\ exc = "none"
        /\ pc = "returned" =>
              out = << Line("Error decoding JSON from API response:", <<JStr("JSONDecodeError")>>),
                       Line("Raw response:", response_text) >>

\* C1 amended: when the cleaned reply is not valid JSON the renderer is never
\* invoked and main returns normally; the output is the banner of the call,
\* then the decode diagnostic, then the reply as the fence stripping left it.
C1_DiagnosticAfterBanner ==
    (Cleaned /\ ~JsonLoads(api_response).ok) =>
        /\ pc \in {"parse", "returned"}
        /\ exc = "none"
        /\ training_plan = None
        /\ NoPlanOutput
        /\ pc = "returned" =>
              /\ Len(out) = 3
              /\ out[1] = CallBanner
              /\ out[2][1] = "Error decoding JSON from API response:"
              /\ out[3] = Line("Raw response:",
                               IF StartsWith(response_text, OpenFence)
                               THEN IF EndsWith(response_text, CloseFence)
                                    THEN SubSeq(response_text, 8, Len(response_text) - 3)
                                    ELSE SubSeq(response_text, 8, Len(response_text))
                               ELSE IF EndsWith(response_text, CloseFence)
                                    THEN SubSeq(response_text, 1, Len(response_text) - 3)
                                    ELSE response_text)
\* A fenced reply that is not JSON has been reported and main has returned.
C1_Witness ==
    /\ pc = "returned"
    /\ StartsWith(response_text, OpenFence)
    /\ EndsWith(response_text, CloseFence)
    /\ HasLabel(out, "Raw response:")

\* C2: at most one request is ever issued; with the credential unset or
\* empty the run ends in the configuration error with no request issued, no
\* reply parsed and nothing rendered.
C2_OneRequestAndNoneWithoutKey ==
    /\ Len(requests) <= 1
    /\ (pc = "raised" /\ exc = "TransportError") => Len(requests) = 1
    /\ (api_key = <<>> \/ api_key = <<"">>) =>
          /\ requests = <<>>
          /\ pc \in {"args", "prompt", "call", "raised"}
          /\ (pc = "raised" /\ exc # "SystemExit") => exc = "ValueError"
          /\ training_plan = None
          /\ NoPlanOutput
          /\ ~HasLabel(out, "Raw response:")
\* The run has stopped on the configuration error with the variable set to
\* the empty string.
C2_Witness == pc = "raised" /\ exc = "ValueError" /\ api_key = <<"">> /\ requests = <<>>

\* C3 as stated: whatever is missing or of the wrong shape in a parsed reply,
\* the renderer raises no exception.
C3_RendererNeverRaises == ~(pc = "raised" /\ exc \in RenderErrors)

\* C4 as stated: a run ends either with the whole plan rendered (every week
\* and day of the parsed reply printed) or with an early stop that printed a
\* message and no plan output at all.
C4_FullRenderingOrEarlyStop ==
    Terminated =>
        \/ /\ exc = "none"
           /\ Has(out, PlanBanner)
           /\ IsDict(training_plan)
           /\ Outline(out) = PlanOutline(training_plan[2])
        \/ /\ NoPlanOutput
           /\ out # <<>>

\* C5 as stated: for every day entry other than weekly_gear_tip exactly one
\* branch runs: "Strength" prints the strength fields, "Rest" prints only
\* the optional activity or N/A, and anything else, an absent workout_type
\* included, prints intensity, RPE target and pace guidance, each or N/A.
C5_DispatchOfEveryDayEntry ==
    [][ (AtDayEntry /\ DayKey # "weekly_gear_tip") =>
          LET wt == Field(DayData, "workout_type") IN
          /\ Len(NewLines) >= 2
          /\ NewLines[1] = Line("DAY", <<JStr(DayKey), wt, Field(DayData, "purpose")>>)
          /\ CASE wt = JStr("Strength") ->
                    /\ NewLines[2] = Line("Total Duration", <<Field(DayData, "total_duration")>>)
                    /\ Labels(NewLines) \subseteq {"DAY", "Total Duration", "Warm-up", "Main Circuit", "-"}
               [] wt = JStr("Rest") ->
                    /\ Len(NewLines) = 2
                    /\ NewLines[2] = Line("Optional Activity", <<Field(DayData, "optional_activity")>>)
               [] OTHER ->
                    /\ Len(NewLines) >= 4
                    /\ NewLines[2] = Line("Intensity", <<Field(DayData, "intensity")>>)
                    /\ NewLines[3] = Line("RPE Target", <<Field(DayData, "rpe_target")>>)
                    /\ NewLines[4] = Line("Pace Guidance", <<Field(DayData, "pace_guidance")>>)
                    /\ Labels(NewLines) \subseteq {"DAY", "Intensity", "RPE Target", "Pace Guidance",
                                                   "Warm-up", "Main Workout", "Cool-down", "-"}
      ]_vars

\* The same dispatch, of the day entries that are mappings.
DispatchOfDayObjects ==
    [][ (AtDayEntry /\ DayKey # "weekly_gear_tip" /\ IsDict(DayData)) =>
          LET wt == Field(DayData, "workout_type") IN
          /\ Len(NewLines) >= 2
          /\ NewLines[1] = Line("DAY", <<JStr(DayKey), wt, Field(DayData, "purpose")>>)
          /\ CASE wt = JStr("Strength") ->
                    /\ NewLines[2] = Line("Total Duration", <<Field(DayData, "total_duration")>>)
                    /\ Labels(NewLines) \subseteq {"DAY", "Total Duration", "Warm-up", "Main Circuit", "-"}
               [] wt = JStr("Rest") ->
                    /\ Len(NewLines) = 2
                    /\ NewLines[2] = Line("Optional Activity", <<Field(DayData, "optional_activity")>>)
               [] OTHER ->
                    /\ Len(NewLines) >= 4
                    /\ NewLines[2] = Line("Intensity", <<Field(DayData, "intensity")>>)
                    /\ NewLines[3] = Line("RPE Target", <<Field(DayData, "rpe_target")>>)
                    /\ NewLines[4] = Line("Pace Guidance", <<Field(DayData, "pace_guidance")>>)
                    /\ Labels(NewLines) \subseteq {"DAY", "Intensity", "RPE Target", "Pace Guidance",
                                                   "Warm-up", "Main Workout", "Cool-down", "-"}
      ]_vars

\* The entry is a day object with workout_type "Strength" and no warm_up key.
StrengthWithoutWarmUp(d) ==
    IsDict(d) /\ Field(d, "workout_type") = JStr("Strength") /\ ~HasKey(d, "warm_up")
\* A line of a warm-up exercise: a bullet of a name and a duration.
IsWarmUpExercise(line) == line[1] = "-" /\ Len(line[2]) = 2

\* C6 as stated: for a Strength day with no warm_up key the renderer prints
\* N/A for the warm-up duration and no warm-up exercise line, and raises no
\* exception.
C6_PlaceholderForMissingWarmUp ==
    [][ (AtDayEntry /\ DayKey # "weekly_gear_tip" /\ StrengthWithoutWarmUp(DayData)) =>
          /\ Has(NewLines, Line("Warm-up", <<NA>>))
          /\ \A i \in 1..Len(NewLines) : ~IsWarmUpExercise(NewLines[i])
          /\ exc' = "none"
      ]_vars

\* C6 amended: for a Strength day with no warm_up key the renderer prints no
\* warm-up line at all, neither a duration (not even N/A) nor an exercise
\* line, and the missing warm_up raises no exception: after the total
\* duration the renderer goes on to main_circuit.
C6_NoWarmUpLineAtAll ==
    [][ (AtDayEntry /\ DayKey # "weekly_gear_tip" /\ StrengthWithoutWarmUp(DayData)) =>
          /\ Len(NewLines) >= 2
          /\ NewLines[1][1] = "DAY"
          /\ NewLines[2] = Line("Total Duration", <<Field(DayData, "total_duration")>>)
          /\ \A i \in 1..Len(NewLines) :
                NewLines[i][1] # "Warm-up" /\ ~IsWarmUpExercise(NewLines[i])
          /\ (HasKey(DayData, "main_circuit") /\ IsDict(Get(DayData, "main_circuit", None))) =>
                (Len(NewLines) >= 3 /\ NewLines[3][1] = "Main Circuit")
          /\ (~(HasKey(DayData, "main_circuit") /\ IsDict(Get(DayData, "main_circuit", None)))) =>
                (Len(NewLines) = 2 /\ exc' = "none")
      ]_vars
\* A Strength day with no warm_up has been printed: its total duration is
\* followed at once by its main circuit.
C6_Witness ==
    \E i \in 1..(Len(out) - 2) :
        /\ out[i][1] = "DAY"
        /\ out[i][2][2] = JStr("Strength")
        /\ out[i + 1][1] = "Total Duration"
        /\ out[i + 2][1] = "Main Circuit"

\* C7: a reply that is the opening fence, then c, then the closing fence is
\* cleaned to a text that json.loads treats as it treats c alone (the same
\* value, or a failure for both); a reply that is a JSON text with no fence
\* is left unchanged.
C7_FencedParsesAsUnfenced ==
    pc = "parse" =>
        /\ (StartsWith(response_text, OpenFence) /\ EndsWith(response_text, CloseFence)) =>
              JsonLoads(api_response)
                = JsonLoads(SubSeq(response_text, 8, Len(response_text) - 3))
        /\ JsonLoads(response_text).ok => api_response = response_text
\* A fenced reply has been cleaned and is a JSON text.
C7_Witness ==
    /\ pc = "parse"
    /\ StartsWith(response_text, OpenFence)
    /\ EndsWith(response_text, CloseFence)
    /\ JsonLoads(api_response).ok
    /\ ~JsonLoads(response_text).ok

\* C8 as stated: for a parsed plan the renderer prints one week header for
\* each top-level key that begins with "week" and nothing for the others,
\* and in each week one tip line for weekly_gear_tip and one day section for
\* every other key, in insertion order; for the plan of week_1 and week_2
\* with seven days and a tip each, two week headers and per week one tip
\* line and seven day sections.
C8_HeadersTipsAndDaysInOrder ==
    (Terminated /\ Has(out, PlanBanner) /\ IsDict(training_plan)) =>
        /\ Outline(out) = PlanOutline(training_plan[2])
        /\ training_plan = ScenarioPlan =>
              /\ Len(Outline(out)) = 18
              /\ Count(Outline(out), <<"WEEK", "week_1">>) = 1
              /\ Count(Outline(out), <<"WEEK", "week_2">>) = 1
              /\ Count(Outline(out), <<"TIP", "weekly_gear_tip">>) = 2
              /\ Cardinality({i \in 1..Len(Outline(out)) : Outline(out)[i][1] = "DAY"}) = 14

\* The same, of the runs whose renderer ran to its end.
OutlineOfCompletedRuns ==
    pc = "done" =>
        /\ Outline(out) = PlanOutline(training_plan[2])
        /\ training_plan = ScenarioPlan =>
              /\ Len(Outline(out)) = 18
              /\ Count(Outline(out), <<"WEEK", "week_1">>) = 1
              /\ Count(Outline(out), <<"WEEK", "week_2">>) = 1
              /\ Count(Outline(out), <<"TIP", "weekly_gear_tip">>) = 2
              /\ Cardinality({i \in 1..Len(Outline(out)) : Outline(out)[i][1] = "DAY"}) = 14

\* C9 as stated: the prompt passed to the model client contains the
\* description of the chosen philosophy verbatim.
C9_PromptHoldsPhilosophy ==
    \A r \in 1..Len(requests) :
        \E i \in 1..Len(requests[r]) :
            requests[r][i] = RUNNING_PHILOSOPHIES[args.philosophy]

\* C10: of a reply that starts with the opening fence and does not end with
\* the closing fence, the clean-up removes the opening fence and nothing
\* else; the rest is parsed, and the run goes on to the renderer when it is
\* JSON and to the decode diagnostic when it is not; the clean-up raises
\* nothing.
C10_OpenFenceOnly ==
    (Cleaned /\ StartsWith(response_text, OpenFence) /\ ~EndsWith(response_text, CloseFence)) =>
        LET rest == SubSeq(response_text, 8, Len(response_text)) IN
        /\ api_response = rest
        /\ pc = "returned" => (~JsonLoads(rest).ok /\ out[3] = Line("Raw response:", rest))
        /\ pc \notin {"parse", "returned"} =>
              (JsonLoads(rest).ok /\ training_plan = JsonLoads(rest).val)
\* A reply with the opening fence only has been cleaned and parsed, and the
\* renderer has started on it.
C10_Witness ==
    /\ pc = "week"
    /\ StartsWith(response_text, OpenFence)
    /\ ~EndsWith(response_text, CloseFence)
    /\ Has(out, PlanBanner)
====
